---- MODULE Spec2Model ----
(***************************************************************************)
(* The optimistic mutation protocol of the post manager, as implemented by *)
(* the six hand-written store variants of the repository:                  *)
(*   react-state-props, context-api, jotai : useState / atom setters with  *)
(*       functional updaters; the lookup reads the `posts` of the render   *)
(*       the callback was created in (useCallback deps [posts]);           *)
(*   zustand       : get() / set(state => ...) on the store itself;        *)
(*   recoil        : actions that receive the rendered `posts` array and   *)
(*       write values computed from that array (no functional updater);    *)
(*   redux-toolkit : slice reducers dispatched around async thunks.        *)
(*                                                                         *)
(* A Post is modelled with id, title and body (userId behaves as body      *)
(* does: a payload field copied by the spread).  A Partial<Post> is a      *)
(* record whose absent fields hold Absent.                                 *)
(***************************************************************************)
EXTENDS Integers, Sequences, FiniteSets, TLC

VARIABLES
  variant,   \* which app's store this run is
  posts,     \* the store's Collection (pending setState updaters applied)
  view,      \* the `posts` array of the last render (what closures captured)
  loading,   \* the store's loading flag
  error,     \* the store's error: NoError or an Error message
  calls,     \* every call made so far, with its locals and its outcome
  now,       \* Date.now()
  nextId,    \* the id the server assigns to the next created record
  searchTerm,    \* PostList: the search box
  currentPage,   \* PostList: the page selected
  toast,         \* useToast: the toast state, NoToast for null
  timeoutRef,    \* useToast: when the hook's timer is due, 0 for null
  closeTimer,    \* Toast: when the component's timer is due, 0 for none
  editingPost,   \* usePostEditor: the post being edited, NoPost for null
  isSubmitting,  \* PostForm: the submitting flag
  touched,       \* PostForm: the touched flags (set and reset together)
  rendered,      \* the state the form's callbacks captured at the last render
  submits        \* every submitPost call made through the form so far

storeVars == <<variant, posts, view, loading, error, calls, now, nextId>>

\* The state of the view layer: PostList, useToast and Toast, usePostEditor
\* and PostForm.
uiVars ==
  <<searchTerm, currentPage, toast, timeoutRef, closeTimer, editingPost,
    isSubmitting, touched, rendered, submits>>

vars == <<storeVars, uiVars>>

----------------------------------------------------------------------------
\* Bounds of the model.

MaxCalls == 2      \* create/update/delete calls issued in one run
MaxTicks == 1      \* milliseconds the clock advances in one run

\* Values of the environment.
ClockStart == 2000          \* Date.now() at mount, far above server ids
FirstServerId == 101        \* the server numbers created records from here
AbsentId == 9               \* an id the server never lists

Variants ==
  {"react-state-props", "context-api", "redux-toolkit", "zustand", "recoil",
   "jotai"}

Absent == "-"
NoError == "none"
NoPost == [id |-> 0, title |-> Absent, body |-> Absent]

Post(i, t, b) == [id |-> i, title |-> t, body |-> b]

\* useToast's toast state; NoToast stands for null.
NoToast == [id |-> 0, message |-> Absent]

\* The view layer as its hooks' useState / useRef initial values leave it.
UiInit ==
  /\ searchTerm = ""
  /\ currentPage = 1
  /\ toast = NoToast
  /\ timeoutRef = 0
  /\ closeTimer = 0
  /\ editingPost = NoPost
  /\ isSubmitting = FALSE
  /\ touched = FALSE
  /\ rendered = [editingPost |-> NoPost, isSubmitting |-> FALSE]
  /\ submits = <<>>

\* ERROR_MESSAGES of the config package, thrown by postsApi.
ERROR_MESSAGES ==
  [FETCH_POSTS |-> "Failed to fetch posts",
   CREATE_POST |-> "Failed to create post",
   UPDATE_POST |-> "Failed to update post",
   DELETE_POST |-> "Failed to delete post"]

\* The ways a request of apiClient fails before postsApi sees it: the
\* timeout elapses, the server answers with a non-2xx status, no response
\* arrives, or the request could not be set up.
TransportCauses == {"timeout", "status404", "status500", "noresponse", "setup"}

\* The response interceptor's rejection handler: the message of the Error it
\* throws for a cause (the AxiosError itself when the request was not sent).
Interceptor(cause) ==
  CASE cause = "timeout" -> "Request timeout. Please try again."
    [] cause = "status404" -> "Server error: 404 Not Found"
    [] cause = "status500" -> "Server error: 500 Internal Server Error"
    [] cause = "noresponse" -> "Network error. Please check your connection."
    [] OTHER -> "AxiosError"

\* A catch block that passes on the message it caught, as getById's does.
RethrowCaught(op, caught) == caught

\* The catch blocks of getAll, create, update and delete: a new Error with
\* the operation's message, whatever was caught.
ApiFailure(op, caught) == ERROR_MESSAGES[op]

\* The messages postsApi's operation op can reject with.
Rejections(op) == {ApiFailure(op, Interceptor(cause)) : cause \in TransportCauses}

\* What postsApi.getAll() can resolve with.
FetchResults == {<<Post(3, "X", "p"), Post(5, "X", "p"), Post(7, "X", "p")>>}

\* The argument of createPost.
CreateData == {[title |-> "N", body |-> "n"]}

\* The arguments of updatePost: a Partial<Post> without id.
Patches == {[title |-> "Y", body |-> Absent], [title |-> Absent, body |-> "q"]}

NoData == [title |-> Absent, body |-> Absent]

----------------------------------------------------------------------------
\* Array helpers, as the stores use them.

Ids(s) == {s[i].id : i \in DOMAIN s}

\* posts.find((p) => p.id === id), NoPost for undefined
Find(s, id) ==
  IF \E i \in DOMAIN s : s[i].id = id
  THEN s[CHOOSE i \in DOMAIN s :
             s[i].id = id /\ \A j \in DOMAIN s : s[j].id = id => i <= j]
  ELSE NoPost

\* { ...p, ...data }
Merge(p, data) ==
  [id |-> p.id,
   title |-> IF data.title = Absent THEN p.title ELSE data.title,
   body |-> IF data.body = Absent THEN p.body ELSE data.body]

\* { id: tempId, ...data }
Optimistic(tempId, data) == Post(tempId, data.title, data.body)

\* posts.map((p) => (p.id === id ? r : p))
MapReplace(s, id, r) ==
  [i \in DOMAIN s |-> IF s[i].id = id THEN r ELSE s[i]]

\* posts.map((p) => (p.id === id ? { ...p, ...data } : p))
MapMerge(s, id, data) ==
  [i \in DOMAIN s |-> IF s[i].id = id THEN Merge(s[i], data) ELSE s[i]]

\* posts.filter((p) => p.id !== id)
FilterOut(s, id) == SelectSeq(s, LAMBDA p : p.id # id)

\* One step of the stable sort: p goes behind every element whose id is <= its own.
InsertById(s, p) ==
  LET k == Cardinality({i \in DOMAIN s : s[i].id <= p.id})
  IN  SubSeq(s, 1, k) \o <<p>> \o SubSeq(s, k + 1, Len(s))

RECURSIVE SortFrom(_, _)
SortFrom(sorted, rest) ==
  IF rest = <<>> THEN sorted
  ELSE SortFrom(InsertById(sorted, Head(rest)), Tail(rest))

\* [...].sort((a, b) => a.id - b.id): Array.prototype.sort is stable
SortById(s) == SortFrom(<<>>, s)

----------------------------------------------------------------------------
\* The writes of each store.  The default branch is the functional updater
\* (setPosts((prev) => ...), set((state) => ...)) of react-state-props,
\* context-api, jotai and zustand, which reads the current state; the recoil
\* actions compute from the `posts` array they were handed at call time; the
\* redux-toolkit hook dispatches slice reducers.

\* recoil createPostAction: setPosts([optimisticPost, ...posts])
RecoilCreateOptimistic(closure, p) == <<p>> \o closure

\* recoil createPostAction: setPosts(posts.map((p) => (p.id === tempId ? newPost : p)))
RecoilCreateFulfilled(closure, tempId, r) == MapReplace(closure, tempId, r)

\* recoil createPostAction: setPosts(posts.filter((p) => p.id !== tempId))
RecoilCreateRejected(closure, tempId) == FilterOut(closure, tempId)

\* recoil updatePostAction: setPosts(posts.map(... { ...p, ...data } ...))
RecoilUpdateOptimistic(closure, id, data) == MapMerge(closure, id, data)

\* recoil updatePostAction: setPosts(posts.map(... updatedPost ...))
RecoilUpdateFulfilled(closure, id, r) == MapReplace(closure, id, r)

\* recoil updatePostAction: setPosts(posts.map(... originalPost ...))
RecoilUpdateRejected(closure, id, orig) == MapReplace(closure, id, orig)

\* recoil deletePostAction: setPosts(posts.filter((p) => p.id !== id))
RecoilDeleteOptimistic(closure, id) == FilterOut(closure, id)

\* recoil deletePostAction: setPosts([...posts, postToDelete].sort(...))
RecoilDeleteRejected(closure, orig) == SortById(closure \o <<orig>>)

\* The id above which the redux slice takes a record for a placeholder.
PlaceholderFloor == 1000

\* state.posts[index] = r for index = findIndex((p) => p.id === id), if any
ReplaceFirst(s, id, r) ==
  IF id \in Ids(s)
  THEN LET index == CHOOSE i \in DOMAIN s :
                      s[i].id = id /\ \A j \in DOMAIN s : s[j].id = id => i <= j
       IN  [s EXCEPT ![index] = r]
  ELSE s

\* redux createPostThunk.fulfilled: the first record with id > 1000 is replaced
ReduxCreateFulfilled(s, r) ==
  LET tempId == IF \E i \in DOMAIN s : s[i].id > PlaceholderFloor
                THEN s[CHOOSE i \in DOMAIN s :
                           /\ s[i].id > PlaceholderFloor
                           /\ \A j \in DOMAIN s :
                                s[j].id > PlaceholderFloor => i <= j].id
                ELSE 0
  IN  IF tempId # 0 THEN ReplaceFirst(s, tempId, r) ELSE s

\* redux optimisticUpdate: state.posts[index] = { ...state.posts[index], ...data }
ReduxOptimisticUpdate(s, id, data) == ReplaceFirst(s, id, Merge(Find(s, id), data))

\* redux updatePostThunk.fulfilled: the record with the payload's id is replaced
ReduxUpdateFulfilled(s, r) == ReplaceFirst(s, r.id, r)

\* redux rollbackUpdate
ReduxRollbackUpdate(s, id, orig) == ReplaceFirst(s, id, orig)

CreateOptimistic(v, cur, closure, p) ==
  IF v = "recoil" THEN RecoilCreateOptimistic(closure, p) ELSE <<p>> \o cur

CreateFulfilled(v, cur, c, r) ==
  CASE v = "recoil" -> RecoilCreateFulfilled(c.closure, c.id, r)
    [] v = "redux-toolkit" -> ReduxCreateFulfilled(cur, r)
    [] OTHER -> MapReplace(cur, c.id, r)

CreateRejected(v, cur, c) ==
  IF v = "recoil" THEN RecoilCreateRejected(c.closure, c.id)
  ELSE FilterOut(cur, c.id)

UpdateOptimistic(v, cur, closure, id, data) ==
  CASE v = "recoil" -> RecoilUpdateOptimistic(closure, id, data)
    [] v = "redux-toolkit" -> ReduxOptimisticUpdate(cur, id, data)
    [] OTHER -> MapMerge(cur, id, data)

UpdateFulfilled(v, cur, c, r) ==
  CASE v = "recoil" -> RecoilUpdateFulfilled(c.closure, c.id, r)
    [] v = "redux-toolkit" -> ReduxUpdateFulfilled(cur, r)
    [] OTHER -> MapReplace(cur, c.id, r)

UpdateRejected(v, cur, c) ==
  CASE v = "recoil" -> RecoilUpdateRejected(c.closure, c.id, c.orig)
    [] v = "redux-toolkit" -> ReduxRollbackUpdate(cur, c.id, c.orig)
    [] OTHER -> MapReplace(cur, c.id, c.orig)

DeleteOptimistic(v, cur, closure, id) ==
  IF v = "recoil" THEN RecoilDeleteOptimistic(closure, id) ELSE FilterOut(cur, id)

DeleteRejected(v, cur, c) ==
  IF v = "recoil" THEN RecoilDeleteRejected(c.closure, c.orig)
  ELSE SortById(cur \o <<c.orig>>)

\* The catch blocks' setError / set({ error }); the redux hook and its
\* *.rejected reducers write no error for a mutation.
MutationError(v, old, message) ==
  IF v = "redux-toolkit" THEN old ELSE message

\* useState(true) in react-state-props and context-api; false elsewhere.
InitialLoading(v) == v \in {"react-state-props", "context-api"}

\* The array a lookup reads: get().posts in zustand, the rendered `posts`
\* captured by the callback elsewhere.
Lookup(v, cur, shown) == IF v = "zustand" THEN cur ELSE shown

\* The array a recoil action is handed; the other stores keep none.
Closure(v, shown) == IF v = "recoil" THEN shown ELSE <<>>

\* The rendered array after a write.  Only a later call reads it: zustand
\* reads none, and once the run's calls are all made nobody does, so there
\* the render is taken at once.
Shown(v, cur, shown, more) == IF v = "zustand" \/ ~more THEN cur ELSE shown

----------------------------------------------------------------------------
\* The server.

\* postsApi.create resolves with the data it was sent and a fresh id.
CreateResponse(id, data) == Post(id, data.title, data.body)

\* postsApi.update(id, data) resolves with a record of that id: the stored
\* record with the fields sent, or one whose fields the server computed.
UpdateResponses(id, data) ==
  {Merge(Post(id, "X", "p"), data), Post(id, "S", "s")}

----------------------------------------------------------------------------
\* Calls.

\* A call's record: its arguments and locals (id is tempId for a create),
\* the Collection it was made on (pre), whether no other call on its id was
\* in flight then (alone), its outcome, and how many times it invoked its
\* remote operation.
Call(kind, id, data, orig, closure, status, remote) ==
  [kind |-> kind, id |-> id, data |-> data, orig |-> orig, closure |-> closure,
   pre |-> IF status = "pending" THEN posts ELSE <<>>,
   alone |-> \A j \in DOMAIN calls :
               calls[j].status = "pending" => calls[j].id # id,
   status |-> status, result |-> NoPost, remote |-> remote]

Mutations == {i \in DOMAIN calls : calls[i].kind # "fetch"}
Fetches == {i \in DOMAIN calls : calls[i].kind = "fetch"}
MoreCalls == Cardinality(Mutations) < MaxCalls

\* The hooks hand out their callbacks with the first render, and the mount
\* effect runs before any event can use them; the zustand store is a module
\* object, usable as soon as it is imported.
Mounted == variant = "zustand" \/ Fetches # {}
\* The calls of a kind that wait for their remote call if a new call
\* cancelled the ones before it.
PendingLatest(kind) ==
  {i \in DOMAIN calls :
     /\ calls[i].kind = kind
     /\ calls[i].status = "pending"
     /\ \A j \in DOMAIN calls : j > i => calls[j].kind = "fetch"}

Pending(kind) ==
  {i \in DOMAIN calls : calls[i].kind = kind /\ calls[i].status = "pending"}

\* The ids the callers of a run name in updatePost and deletePost: two listed
\* records, the placeholders, and an id no record has.
TempIds == {calls[i].id : i \in {j \in DOMAIN calls : calls[j].kind = "create"}}
Targets == {5, 7, AbsentId} \cup TempIds

\* A call ends: its outcome is kept, its locals are gone.
Settle(i, status, result) ==
  [calls EXCEPT ![i] = [kind |-> calls[i].kind, id |-> calls[i].id,
                        data |-> NoData, orig |-> NoPost, closure |-> <<>>,
                        pre |-> <<>>, alone |-> calls[i].alone,
                        status |-> status, result |-> result,
                        remote |-> calls[i].remote]]

Init ==
  /\ variant \in Variants
  /\ UiInit
  /\ posts = <<>>
  /\ view = <<>>
  /\ loading = InitialLoading(variant)
  /\ error = NoError
  /\ calls = <<>>
  /\ now = ClockStart
  /\ nextId = FirstServerId

\* The mount effect (fetchPosts in zustand, dispatch(fetchPosts()) in redux)
\* up to its await; its dependencies never change, so it runs once.
FetchStart ==
  /\ Fetches = {}
  /\ loading' = TRUE
  /\ error' = NoError
  /\ calls' = Append(calls, Call("fetch", 0, NoData, NoPost, <<>>, "pending", 1))
  /\ UNCHANGED <<uiVars, variant, posts, view, now, nextId>>

\* A fetch continuation that adds S to what the Collection holds.
FetchOkAppends(i, S) ==
  /\ i \in Pending("fetch")
  /\ posts' = posts \o S
  /\ loading' = FALSE
  /\ calls' = Settle(i, "ok", NoPost)
  /\ view' = Shown(variant, posts', view, MoreCalls')
  /\ UNCHANGED <<uiVars, variant, error, now, nextId>>

\* postsApi.getAll() resolves with S.
FetchOk(i, S) ==
  /\ i \in Pending("fetch")
  /\ posts' = S
  /\ loading' = FALSE
  /\ calls' = Settle(i, "ok", NoPost)
  /\ view' = Shown(variant, posts', view, MoreCalls')
  /\ UNCHANGED <<uiVars, variant, error, now, nextId>>

\* A fetch catch block that also empties the Collection.
FetchFailClears(i) ==
  /\ i \in Pending("fetch")
  /\ posts' = <<>>
  /\ error' = ERROR_MESSAGES.FETCH_POSTS
  /\ loading' = FALSE
  /\ calls' = Settle(i, "failed", NoPost)
  /\ view' = Shown(variant, posts', view, MoreCalls')
  /\ UNCHANGED <<uiVars, variant, now, nextId>>

\* A fetch catch block without the finally that resets loading.
FetchFailKeepsLoading(i) ==
  /\ i \in Pending("fetch")
  /\ error' = ERROR_MESSAGES.FETCH_POSTS
  /\ calls' = Settle(i, "failed", NoPost)
  /\ UNCHANGED <<uiVars, variant, posts, view, loading, now, nextId>>

\* postsApi.getAll() rejects.
FetchFail(i) ==
  /\ i \in Pending("fetch")
  /\ \E message \in Rejections("FETCH_POSTS") : error' = message
  /\ loading' = FALSE
  /\ calls' = Settle(i, "failed", NoPost)
  /\ UNCHANGED <<uiVars, variant, posts, view, now, nextId>>

\* createPost(data) up to its await.
StartCreate(data) ==
  /\ Mounted
  /\ LET tempId == now
         optimisticPost == Optimistic(tempId, data)
     IN  /\ posts' = CreateOptimistic(variant, posts, view, optimisticPost)
         /\ calls' = Append(calls, Call("create", tempId, data, NoPost,
                                        Closure(variant, view), "pending", 1))
  /\ view' = Shown(variant, posts', view, MoreCalls')
  /\ UNCHANGED <<uiVars, variant, loading, error, now, nextId>>

\* A call of createPost, as long as the run may make calls.
CallCreate(data) == MoreCalls /\ StartCreate(data)

\* postsApi.create resolves: the try block's continuation.
CreateOk(i) ==
  /\ i \in Pending("create")
  /\ LET newPost == CreateResponse(nextId, calls[i].data)
     IN  /\ posts' = CreateFulfilled(variant, posts, calls[i], newPost)
         /\ calls' = Settle(i, "ok", newPost)
  /\ nextId' = nextId + 1
  /\ view' = Shown(variant, posts', view, MoreCalls')
  /\ UNCHANGED <<uiVars, variant, loading, error, now>>

\* postsApi.create rejects: the catch block.
CreateFail(i) ==
  /\ i \in Pending("create")
  /\ posts' = CreateRejected(variant, posts, calls[i])
  /\ \E message \in Rejections("CREATE_POST") :
       error' = MutationError(variant, error, message)
  /\ calls' = Settle(i, "failed", NoPost)
  /\ view' = Shown(variant, posts', view, MoreCalls')
  /\ UNCHANGED <<uiVars, variant, loading, now, nextId>>

\* updatePost(id, data) up to its await, or to its throw of 'Post not found'.
StartUpdate(id, data) ==
  /\ Mounted
  /\ LET originalPost == Find(Lookup(variant, posts, view), id)
     IN  IF originalPost = NoPost
         THEN /\ calls' = Append(calls, Call("update", id, data, NoPost, <<>>,
                                             "notfound", 0))
              /\ UNCHANGED posts
         ELSE /\ posts' = UpdateOptimistic(variant, posts, view, id, data)
              /\ calls' = Append(calls, Call("update", id, data, originalPost,
                                             Closure(variant, view), "pending", 1))
  /\ view' = Shown(variant, posts', view, MoreCalls')
  /\ UNCHANGED <<uiVars, variant, loading, error, now, nextId>>

\* A call of updatePost, as long as the run may make calls.
CallUpdate(id, data) == MoreCalls /\ StartUpdate(id, data)

\* A success branch of updatePost that also clears error.
UpdateOkClearsError(i, updatedPost) ==
  /\ i \in Pending("update")
  /\ posts' = UpdateFulfilled(variant, posts, calls[i], updatedPost)
  /\ error' = NoError
  /\ calls' = Settle(i, "ok", updatedPost)
  /\ view' = Shown(variant, posts', view, MoreCalls')
  /\ UNCHANGED <<uiVars, variant, loading, now, nextId>>

\* postsApi.update resolves with updatedPost.
UpdateOk(i, updatedPost) ==
  /\ i \in Pending("update")
  /\ posts' = UpdateFulfilled(variant, posts, calls[i], updatedPost)
  /\ calls' = Settle(i, "ok", updatedPost)
  /\ view' = Shown(variant, posts', view, MoreCalls')
  /\ UNCHANGED <<uiVars, variant, loading, error, now, nextId>>

\* postsApi.update rejects.
UpdateFail(i) ==
  /\ i \in Pending("update")
  /\ posts' = UpdateRejected(variant, posts, calls[i])
  /\ \E message \in Rejections("UPDATE_POST") :
       error' = MutationError(variant, error, message)
  /\ calls' = Settle(i, "failed", NoPost)
  /\ view' = Shown(variant, posts', view, MoreCalls')
  /\ UNCHANGED <<uiVars, variant, loading, now, nextId>>

\* deletePost(id) up to its await, or to its throw of 'Post not found'.
StartDelete(id) ==
  /\ Mounted
  /\ LET postToDelete == Find(Lookup(variant, posts, view), id)
     IN  IF postToDelete = NoPost
         THEN /\ calls' = Append(calls, Call("delete", id, NoData, NoPost, <<>>,
                                             "notfound", 0))
              /\ UNCHANGED posts
         ELSE /\ posts' = DeleteOptimistic(variant, posts, view, id)
              /\ calls' = Append(calls, Call("delete", id, NoData, postToDelete,
                                             Closure(variant, view), "pending", 1))
  /\ view' = Shown(variant, posts', view, MoreCalls')
  /\ UNCHANGED <<uiVars, variant, loading, error, now, nextId>>

\* A deletePost that refuses to start while an error is recorded.
CallDeleteUnlessError(id) == error = NoError /\ MoreCalls /\ StartDelete(id)

\* A call of deletePost, as long as the run may make calls.
CallDelete(id) == MoreCalls /\ StartDelete(id)

\* postsApi.delete resolves: nothing is written.
DeleteOk(i) ==
  /\ i \in Pending("delete")
  /\ calls' = Settle(i, "ok", NoPost)
  /\ UNCHANGED <<uiVars, variant, posts, view, loading, error, now, nextId>>

\* A deletePost rollback that puts nothing back.
DeleteFailDropsRecord(i) ==
  /\ i \in Pending("delete")
  /\ error' = MutationError(variant, error, ERROR_MESSAGES.DELETE_POST)
  /\ calls' = Settle(i, "failed", NoPost)
  /\ view' = Shown(variant, posts, view, MoreCalls')
  /\ UNCHANGED <<uiVars, variant, posts, loading, now, nextId>>

\* postsApi.delete rejects.
DeleteFail(i) ==
  /\ i \in Pending("delete")
  /\ posts' = DeleteRejected(variant, posts, calls[i])
  /\ \E message \in Rejections("DELETE_POST") :
       error' = MutationError(variant, error, message)
  /\ calls' = Settle(i, "failed", NoPost)
  /\ view' = Shown(variant, posts', view, MoreCalls')
  /\ UNCHANGED <<uiVars, variant, loading, now, nextId>>

\* React renders: the hook's `posts` and the callbacks that captured it are
\* those of the current state.
Render ==
  /\ MoreCalls
  /\ view # posts
  /\ view' = posts
  /\ UNCHANGED <<uiVars, variant, posts, loading, error, calls, now, nextId>>

\* A millisecond passes.  Only a clock value that a call has read matters:
\* until then a later start of the clock gives the same run.
Tick ==
  /\ now < ClockStart + MaxTicks
  /\ \E i \in DOMAIN calls : calls[i].kind = "create" /\ calls[i].id = now
  /\ now' = now + 1
  /\ UNCHANGED <<uiVars, variant, posts, view, loading, error, calls, nextId>>

Next ==
  \/ FetchStart
  \/ \E i \in DOMAIN calls, S \in FetchResults : FetchOk(i, S)
  \/ \E i \in DOMAIN calls : FetchFail(i)
  \/ \E data \in CreateData : CallCreate(data)
  \/ \E i \in DOMAIN calls : CreateOk(i)
  \/ \E i \in DOMAIN calls : CreateFail(i)
  \/ \E id \in Targets, data \in Patches : CallUpdate(id, data)
  \/ \E i \in DOMAIN calls :
       \E updatedPost \in UpdateResponses(calls[i].id, calls[i].data) :
         UpdateOk(i, updatedPost)
  \/ \E i \in DOMAIN calls : UpdateFail(i)
  \/ \E id \in Targets : CallDelete(id)
  \/ \E i \in DOMAIN calls : DeleteOk(i)
  \/ \E i \in DOMAIN calls : DeleteFail(i)
  \/ Render
  \/ Tick

Spec == Init /\ [][Next]_vars

\* The runs of Spec continued by one more call, made on the Collection as
\* rendered once the calls of Spec are all made.
DeepNext ==
  \/ Next
  \/ /\ Cardinality(Mutations) = MaxCalls
     /\ \/ \E data \in CreateData : StartCreate(data)
        \/ \E id \in Targets, data \in Patches : StartUpdate(id, data)
        \/ \E id \in Targets : StartDelete(id)

DeepSpec == Init /\ [][DeepNext]_vars

\* The remote call of the i-th call responds, and the call runs its
\* continuation to its return or its throw.
Respond(i) ==
  \/ CreateOk(i)
  \/ CreateFail(i)
  \/ /\ i \in Pending("update")
     /\ \E updatedPost \in UpdateResponses(calls[i].id, calls[i].data) :
          UpdateOk(i, updatedPost)
  \/ UpdateFail(i)
  \/ DeleteOk(i)
  \/ DeleteFail(i)

\* The runs in which every remote call of a mutation eventually responds:
\* axios settles each request, with a response or with its timeout.
FairSpec == Spec /\ \A i \in 1..(MaxCalls + 1) : WF_vars(Respond(i))

----------------------------------------------------------------------------
\* Steps, as the claims speak of them.

\* Call i, of the given kind, ends in this step with the given outcome.
Settles(i, kind, status) ==
  /\ calls[i].kind = kind
  /\ calls[i].status = "pending"
  /\ calls'[i].status = status

\* This step is a call of the given kind on id.
Issues(kind, id) ==
  /\ Len(calls') = Len(calls) + 1
  /\ calls'[Len(calls')].kind = kind
  /\ calls'[Len(calls')].id = id

Issued == calls'[Len(calls')]

\* The ids of s are strictly ascending.
Ascending(s) == \A i, j \in DOMAIN s : i < j => s[i].id < s[j].id

IdSeq(s) == [i \in DOMAIN s |-> s[i].id]

Positions(s, id) == {k \in DOMAIN s : s[k].id = id}

\* s without its k-th element.
Without(s, k) == SubSeq(s, 1, k - 1) \o SubSeq(s, k + 1, Len(s))

----------------------------------------------------------------------------
\* C1: when the remote create of a create call succeeds with record R, the
\* placeholder of that call (the element whose id is the call's tempId) is
\* replaced by R at the same position, no element with that tempId remains,
\* and the call returns R.
C1_CreateReconciled ==
  [][\A i \in DOMAIN calls :
       Settles(i, "create", "ok") =>
         LET tempId == calls[i].id
             R == CreateResponse(nextId, calls[i].data)
         IN  /\ calls'[i].result = R
             /\ Len(posts') = Len(posts)
             /\ \A k \in Positions(posts, tempId) : posts'[k] = R
             /\ tempId \notin Ids(posts')]_vars

\* C2: on a Collection in ascending-id order that contains k and is the one
\* rendered, delete(k) at once yields the Collection without k, and if
\* nothing else has written since and the remote delete fails, the
\* Collection has again the ids it had at the call, each once, in ascending
\* order, the record at k being the snapshot.
C2_DeleteRollbackRestores ==
  [][/\ \A k \in Ids(posts) :
          (Issues("delete", k) /\ Ascending(posts) /\ view = posts) =>
            (Issued.status = "pending" /\ posts' = FilterOut(posts, k))
     /\ \A i \in DOMAIN calls :
          (/\ Settles(i, "delete", "failed")
           /\ Ascending(calls[i].pre)
           /\ calls[i].id \in Ids(calls[i].pre)
           /\ posts = FilterOut(calls[i].pre, calls[i].id)) =>
            (/\ IdSeq(posts') = IdSeq(calls[i].pre)
             /\ Find(posts', calls[i].id) = calls[i].orig)]_vars

\* C3: if create(data) is called on the Collection C and, nothing else having
\* written since, its remote create fails, the Collection is exactly C again.
C3_CreateRollbackRestores ==
  [][\A i \in DOMAIN calls :
       (/\ Settles(i, "create", "failed")
        /\ posts = <<Optimistic(calls[i].id, calls[i].data)>> \o calls[i].pre) =>
         posts' = calls[i].pre]_vars

\* C4: if update(k, data) is called on a Collection containing k while no
\* other call on k is in flight and, nothing else having written since, its
\* remote update fails, the entry at k is the snapshot again, which is the
\* record the Collection held at the call, at the same position, and every
\* other entry is unchanged.
C4_UpdateRollbackRestores ==
  [][\A i \in DOMAIN calls :
       (/\ Settles(i, "update", "failed")
        /\ calls[i].alone
        /\ calls[i].id \in Ids(calls[i].pre)
        /\ posts = MapMerge(calls[i].pre, calls[i].id, calls[i].data)) =>
         (/\ posts' = calls[i].pre
          /\ \A k \in Positions(posts, calls[i].id) : posts'[k] = calls[i].orig)]_vars

\* C5: as long as no remote call has failed and no call was refused, no two
\* elements of the Collection have the same id, pending creates included.
C5_IdsUnique ==
  (\A i \in DOMAIN calls : calls[i].status \in {"pending", "ok"}) =>
    \A j, k \in DOMAIN posts : j # k => posts[j].id # posts[k].id

\* C6: update(id, data) or delete(id) for an id that is not in the
\* Collection fails with 'Post not found', invokes no remote operation and
\* leaves the Collection unchanged.
C6_AbsentIdRefused ==
  [][\A id \in Targets \ Ids(posts) :
       (Issues("update", id) \/ Issues("delete", id)) =>
         (/\ Issued.status = "notfound"
          /\ Issued.remote = 0
          /\ posts' = posts)]_vars

\* The message postsApi throws for a mutation of this kind.
FailureOf(kind) ==
  CASE kind = "create" -> ERROR_MESSAGES.CREATE_POST
    [] kind = "update" -> ERROR_MESSAGES.UPDATE_POST
    [] kind = "delete" -> ERROR_MESSAGES.DELETE_POST
    [] OTHER -> ERROR_MESSAGES.FETCH_POSTS

\* C7: a delete or update call on an id that is not in the Collection is
\* refused with 'Post not found' and leaves error and loading as they were,
\* at the call and at any later step of that call.
C7_AbsentIdLeavesErrorAlone ==
  [][/\ \A id \in Targets \ Ids(posts) :
          (Issues("update", id) \/ Issues("delete", id)) =>
            (/\ Issued.status = "notfound"
             /\ error' = error
             /\ loading' = loading)
     /\ \A i \in DOMAIN calls :
          (/\ calls[i].kind \in {"update", "delete"}
           /\ calls[i].status = "pending"
           /\ calls[i].id \notin Ids(calls[i].pre)
           /\ calls'[i].status # "pending") =>
            (error' = error /\ loading' = loading)]_vars

\* C8: the Collection never holds two elements with the tempId of a create.
C8_OnePlaceholderPerTempId ==
  \A t \in TempIds : Cardinality(Positions(posts, t)) <= 1

\* C9: the reconciliation or rollback of a create changes at most one
\* element of the Collection, one that has the call's tempId, and nothing if
\* the Collection holds no such element.
C9_CreateSettlesOwnPlaceholder ==
  [][\A i \in DOMAIN calls :
       LET tempId == calls[i].id
           changed == {k \in DOMAIN posts : posts'[k] # posts[k]}
       IN  /\ Settles(i, "create", "ok") =>
                /\ Len(posts') = Len(posts)
                /\ changed \subseteq Positions(posts, tempId)
                /\ Cardinality(changed) <= 1
           /\ Settles(i, "create", "failed") =>
                \/ tempId \notin Ids(posts) /\ posts' = posts
                \/ \E k \in Positions(posts, tempId) : posts' = Without(posts, k)]_vars

\* C10: when the remote call of a create, update or delete fails, error
\* holds that failure once the call has ended.
C10_FailureRecorded ==
  [][\A i \in DOMAIN calls :
       \A kind \in {"create", "update", "delete"} :
         Settles(i, kind, "failed") => error' = FailureOf(kind)]_vars

\* C11: when the remote call of a create, update or delete fails, the call's
\* optimistic change is undone in the state in which the call rethrows: the
\* placeholder of a create is gone, every entry at the id of an update is the
\* call's snapshot, and the id of a delete is in the Collection again.
C11_RollbackBeforeRethrow ==
  [][\A i \in DOMAIN calls :
       /\ Settles(i, "create", "failed") => calls[i].id \notin Ids(posts')
       /\ Settles(i, "update", "failed") =>
            \A k \in Positions(posts', calls[i].id) : posts'[k] = calls[i].orig
       /\ Settles(i, "delete", "failed") => calls[i].id \in Ids(posts')]_vars

\* C12: a record with a server-assigned id that is in the Collection, and for
\* whose id no delete call has been issued, is still in the Collection after
\* every step of a create, update or delete (optimistic write,
\* reconciliation or rollback).
C12_ServerRecordsKept ==
  [][(\A i \in DOMAIN calls : ~Settles(i, "fetch", "ok")) =>
       \A id \in Ids(posts) \ TempIds :
         (\A j \in DOMAIN calls' : calls'[j].kind = "delete" => calls'[j].id # id)
           => id \in Ids(posts')]_vars

\* C13: when the remote call of a fetch succeeds with the sequence S, the
\* Collection is S, element for element, whatever it held before, and
\* loading is false.
C13_FetchReplaces ==
  [][\A i \in DOMAIN calls :
       Settles(i, "fetch", "ok") =>
         (posts' \in FetchResults /\ loading' = FALSE)]_vars

\* The fetch has resolved over a Collection that held the placeholder of a
\* create called while it was in flight.
C13_Witness ==
  /\ Len(calls) = 2
  /\ calls[1].kind = "create" /\ calls[1].status = "pending"
  /\ calls[2].kind = "fetch" /\ calls[2].status = "ok"
  /\ posts \in FetchResults
  /\ ~loading

\* C14: when the remote call of a fetch fails, error is that failure,
\* loading is false and the failure leaves the Collection as it was: what it
\* held when the fetch started if no create, update or delete was called in
\* the run, which is the empty Collection of the initial load.
C14_FetchFailureKeeps ==
  [][\A i \in DOMAIN calls :
       Settles(i, "fetch", "failed") =>
         /\ error' = ERROR_MESSAGES.FETCH_POSTS
         /\ loading' = FALSE
         /\ posts' = posts
         /\ Mutations = {} => (posts' = calls[i].pre /\ posts' = <<>>)]_vars

\* The fetch has failed while the Collection held a placeholder.
C14_Witness ==
  /\ \E i \in DOMAIN calls : calls[i].kind = "fetch" /\ calls[i].status = "failed"
  /\ \E j \in DOMAIN calls : calls[j].kind = "create" /\ calls[j].status = "pending"
  /\ posts # <<>>
  /\ error = ERROR_MESSAGES.FETCH_POSTS
  /\ ~loading

\* A step of a create, update or delete: a call of one, or the end of one.
MutationStep ==
  \/ /\ Len(calls') = Len(calls) + 1
     /\ calls'[Len(calls')].kind # "fetch"
  \/ \E i \in Mutations : calls[i].status = "pending" /\ calls'[i].status # "pending"

C16_ErrorWrittenOnlyOnFailure ==
  [][/\ (Len(calls') = Len(calls) + 1 /\ Issued.kind = "fetch") => error' = NoError
     /\ (Len(calls') = Len(calls) + 1 /\ Issued.kind # "fetch") => error' = error
     /\ \A i \in Mutations :
          (calls[i].status = "pending" /\ calls'[i].status = "ok") =>
            error' = error]_vars

\* An update has failed and recorded its error; a later update of the same
\* record, called after that failure, has succeeded and the error is still
\* there.
C16_Witness ==
  \E i, j \in DOMAIN calls :
    /\ i < j
    /\ calls[i].kind = "update" /\ calls[i].status = "failed"
    /\ calls[j].kind = "update" /\ calls[j].status = "ok"
    /\ calls[j].id = calls[i].id /\ calls[j].alone
    /\ error = ERROR_MESSAGES.UPDATE_POST

\* The Collection and the outcome of each step of a create, update or delete,
\* computed from the Collection, the rendered array, the call's locals, the
\* clock and the server's answer: error is not among them.
ErrorBlindStep ==
  /\ Issues("create", now) =>
       /\ Issued.status = "pending"
       /\ posts' = CreateOptimistic(variant, posts, view,
                                    Optimistic(now, Issued.data))
  /\ \A id \in Targets :
       (Issues("update", id) \/ Issues("delete", id)) =>
         IF Find(Lookup(variant, posts, view), id) = NoPost
         THEN Issued.status = "notfound" /\ posts' = posts
         ELSE /\ Issued.status = "pending"
              /\ posts' = IF Issued.kind = "update"
                          THEN UpdateOptimistic(variant, posts, view, id, Issued.data)
                          ELSE DeleteOptimistic(variant, posts, view, id)
  /\ \A i \in Mutations :
       /\ Settles(i, "create", "ok") =>
            /\ calls'[i].result = CreateResponse(nextId, calls[i].data)
            /\ posts' = CreateFulfilled(variant, posts, calls[i], calls'[i].result)
       /\ Settles(i, "create", "failed") =>
            posts' = CreateRejected(variant, posts, calls[i])
       /\ Settles(i, "update", "ok") =>
            /\ calls'[i].result \in UpdateResponses(calls[i].id, calls[i].data)
            /\ posts' = UpdateFulfilled(variant, posts, calls[i], calls'[i].result)
       /\ Settles(i, "update", "failed") =>
            posts' = UpdateRejected(variant, posts, calls[i])
       /\ Settles(i, "delete", "ok") => posts' = posts
       /\ Settles(i, "delete", "failed") =>
            posts' = DeleteRejected(variant, posts, calls[i])

\* C17: a recorded error blocks nothing: whatever error holds, a create, an
\* update and a delete can be called as long as the run may make calls, and
\* each step of theirs gives the Collection and the result that the
\* Collection, the call and the remote outcome determine.
C17_ErrorBlocksNothing ==
  /\ []((MoreCalls /\ Mounted) =>
         /\ \A data \in CreateData : ENABLED CallCreate(data)
         /\ \A id \in Targets :
              /\ ENABLED CallDelete(id)
              /\ \A data \in Patches : ENABLED CallUpdate(id, data))
  /\ [][ErrorBlindStep]_vars

\* An update has failed and recorded its error, and a delete of the same
\* record has been called after that.
C17_Witness ==
  \E i, j \in DOMAIN calls :
    /\ i < j
    /\ calls[i].kind = "update" /\ calls[i].status = "failed"
    /\ calls[j].kind = "delete" /\ calls[j].status = "pending"
    /\ calls[j].id = calls[i].id /\ calls[j].alone
    /\ error = ERROR_MESSAGES.UPDATE_POST

\* The i-th call is a create, update or delete waiting for its remote call.
InFlight(i) ==
  i \in DOMAIN calls /\ calls[i].kind # "fetch" /\ calls[i].status = "pending"

\* The i-th call has ended, with its reconciliation or with its rollback.
Ended(i) == i \in DOMAIN calls /\ calls[i].status \in {"ok", "failed"}

\* C18: if every remote call eventually responds, every started create,
\* update or delete eventually ends, in success or in failure; while it
\* waits its continuation stays ready whatever else is called, and once it
\* has ended its outcome never changes.
C18_MutationsEnd ==
  /\ \A i \in 1..(MaxCalls + 1) : InFlight(i) ~> Ended(i)
  /\ [](\A i \in 1..(MaxCalls + 1) : InFlight(i) => ENABLED Respond(i))
  /\ [][\A i \in DOMAIN calls :
          calls[i].status # "pending" => calls'[i].status = calls[i].status]_vars

\* Two mutations were in flight together and both have ended, the one called
\* first after the one called second was started.
C18_Witness ==
  \E i, j \in DOMAIN calls :
    /\ i < j
    /\ calls[i].kind = "update" /\ calls[i].status = "failed"
    /\ calls[j].kind = "delete" /\ calls[j].status = "ok"
    /\ calls[j].id = calls[i].id /\ ~calls[j].alone

\* C19: a call invokes its remote operation when it is made and never again,
\* also after a failure: once for a create, once for an update or delete
\* whose id is in the Collection, and not at all for an update or delete
\* that fails with 'Post not found'.
C19_RemoteInvokedOnce ==
  [][/\ \A i \in DOMAIN calls : calls'[i].remote = calls[i].remote
     /\ (Len(calls') = Len(calls) + 1 /\ Issued.kind # "fetch") =>
          Issued.remote = IF Issued.status = "notfound" THEN 0 ELSE 1
     /\ \A id \in Ids(posts) :
          (Issues("update", id) \/ Issues("delete", id)) => Issued.remote = 1]_vars

\* C20: right after create(data) is called, its remote call still pending,
\* the first element of the Collection is the placeholder {id: tempId,
\* ...data} and the rest is the Collection as it was before the call, in the
\* same order.
C20_PlaceholderPrepended ==
  [][Issues("create", now) =>
       /\ Issued.status = "pending"
       /\ posts' = <<Optimistic(now, Issued.data)>> \o posts]_vars

\* The first position of s that holds id.
FirstPosition(s, id) ==
  CHOOSE k \in Positions(s, id) : \A j \in Positions(s, id) : k <= j

\* C21: right after update(id, partialData) is called on an id that is in
\* the Collection and has passed the lookup, its remote call still pending,
\* the entry at id is the previous record with the fields of partialData
\* written over it, at the same position, and every entry with another id
\* is unchanged.
C21_UpdateMergedInPlace ==
  [][\A id \in Ids(posts) :
       (Issues("update", id) /\ Issued.status = "pending") =>
         /\ Len(posts') = Len(posts)
         /\ LET k == FirstPosition(posts, id)
            IN  posts'[k] = Merge(posts[k], Issued.data)
         /\ \A j \in DOMAIN posts : posts[j].id # id => posts'[j] = posts[j]]_vars

\* C22: when the remote update of update(id, partialData) succeeds with the
\* record R, the call returns R and the entry of the Collection at id, if
\* there is one, is R at the position it had.
C22_UpdateReconciled ==
  [][\A i \in DOMAIN calls :
       Settles(i, "update", "ok") =>
         LET R == calls'[i].result
         IN  /\ R \in UpdateResponses(calls[i].id, calls[i].data)
             /\ calls[i].id \in Ids(posts) =>
                  LET k == FirstPosition(posts, calls[i].id)
                  IN  k \in DOMAIN posts' /\ posts'[k] = R]_vars

\* C23: delete(id), called on an id that is in the Collection and has passed
\* the lookup, removes the record with that id and leaves the other entries
\* and their order as they were; the success of its remote call changes
\* nothing in the Collection.
C23_DeleteRemovesOnlyTarget ==
  [][/\ \A id \in Ids(posts) :
          (Issues("delete", id) /\ Issued.status = "pending") =>
            posts' = FilterOut(posts, id)
     /\ \A i \in DOMAIN calls :
          Settles(i, "delete", "ok") => posts' = posts]_vars

----------------------------------------------------------------------------
\* The values a remote call has confirmed for an id: the record a fetch
\* listed, and the results of the calls that resolved.
Confirmed(id) ==
  {Find(S, id) : S \in FetchResults}
    \cup {calls[i].result : i \in {j \in DOMAIN calls : calls[j].status = "ok"}}

\* C25: two interleaved operations on one id can leave unconfirmed data in
\* the Collection.  A deletePost of k that started while an updatePost of k
\* was in flight captured the optimistically merged record; whenever such a
\* delete fails, its rollback puts that record back into the Collection, a
\* value no remote call confirmed.  (The witness is the resting state this
\* leads to.)
C25_UnconfirmedSurvives ==
  [][\A j \in DOMAIN calls :
       (/\ Settles(j, "delete", "failed")
        /\ ~calls[j].alone
        /\ calls[j].orig \notin Confirmed(calls[j].id)) =>
         \E k \in DOMAIN posts' : posts'[k] = calls[j].orig]_vars

\* Every call has ended, none of those on record 5 succeeded, and record 5
\* holds a value that no remote call confirmed.
C25_Witness ==
  /\ \A i \in DOMAIN calls : calls[i].status # "pending"
  /\ \E i, j \in DOMAIN calls :
       /\ i < j
       /\ calls[i].kind = "update" /\ calls[i].id = 5
       /\ calls[i].status = "failed"
       /\ calls[j].kind = "delete" /\ calls[j].id = 5
       /\ calls[j].status = "failed"
  /\ 5 \in Ids(posts)
  /\ Find(posts, 5) \notin Confirmed(5)

\* The call that a step issues or settles, if it is a mutation.
Acts(i) ==
  /\ i \in DOMAIN calls'
  /\ calls'[i].kind # "fetch"
  /\ (i \notin DOMAIN calls \/ calls'[i] # calls[i])

\* Another mutation, on another id, is in flight when the step is taken.
Overlapped(i) ==
  \E j \in DOMAIN calls :
    /\ j # i
    /\ calls[j].kind # "fetch"
    /\ calls[j].status = "pending"
    /\ calls[j].id # calls'[i].id

\* C28: overlapping mutations on different ids do not interfere.  While a
\* mutation of another id is in flight and the render is up to date, every
\* step of a mutation (its optimistic write, its reconciliation, its
\* rollback) leaves each record of another id as it was, in presence and in
\* value, so each record ends as if its own mutation had run alone.  The ids
\* of a call are its target (the tempId for a create) and the id of its
\* result.
C28_OtherRecordsUntouched ==
  [][\A i \in DOMAIN calls' :
       (Acts(i) /\ Overlapped(i) /\ view = posts) =>
         \A id \in (Ids(posts) \cup Ids(posts')) \ {calls'[i].id, calls'[i].result.id} :
           /\ id \in Ids(posts) /\ id \in Ids(posts')
           /\ Find(posts', id) = Find(posts, id)]_vars

\* C29: at quiescence no placeholder is left.  In a run whose mutations are
\* all creates, concurrent or not, succeeding or failing, any state where no
\* create call is in flight has a Collection without a record whose id is a
\* tempId that a create call issued.
C29_NoPlaceholderAtRest ==
  (/\ \A i \in Mutations : calls[i].kind = "create"
   /\ Pending("create") = {}) =>
    Ids(posts) \cap TempIds = {}

\* The record a fetch lists for id (every fetch lists the same records).
Listed(id) == CHOOSE r \in {Find(S, id) : S \in FetchResults} : TRUE

\* C30: if two update calls on the same id overlap and both remote calls
\* fail, then after both have rolled back, in either completion order, the
\* record at that id equals its value before the first update was called.
\* For a record the server lists that no other mutation targets, that value
\* is the listed one.
C30_BothRollbacksRestore ==
  \A i, j \in DOMAIN calls :
    (/\ i < j
     /\ calls[i].kind = "update" /\ calls[j].kind = "update"
     /\ calls[i].id = calls[j].id
     /\ Listed(calls[i].id) # NoPost
     /\ ~calls[j].alone
     /\ calls[i].status = "failed" /\ calls[j].status = "failed"
     /\ \A m \in Mutations \ {i, j} : calls[m].id # calls[i].id) =>
      Find(posts, calls[i].id) = Listed(calls[i].id)

\* C27: every failure of postsApi.getAll, create, update or delete, whatever
\* its transport cause, reaches the store as one Error with that operation's
\* message: the store's error is never anything but one of the four
\* operation messages, and the step in which a call fails leaves error as it
\* was or sets it to the message of the call's operation.
C27_UniformFailure ==
  /\ [](error \in {NoError, ERROR_MESSAGES.FETCH_POSTS,
                   ERROR_MESSAGES.CREATE_POST, ERROR_MESSAGES.UPDATE_POST,
                   ERROR_MESSAGES.DELETE_POST})
  /\ [][\A i \in DOMAIN calls :
          \A kind \in {"fetch", "create", "update", "delete"} :
            Settles(i, kind, "failed") => error' \in {error, FailureOf(kind)}]_vars

\* A delete and a fetch have failed, and the store holds the delete's message.
C27_Witness ==
  /\ \E i \in DOMAIN calls : calls[i].kind = "delete" /\ calls[i].status = "failed"
  /\ \E i \in DOMAIN calls : calls[i].kind = "fetch" /\ calls[i].status = "failed"
  /\ error = ERROR_MESSAGES.DELETE_POST

----------------------------------------------------------------------------
\* The rtk-query app.  Its usePosts hook keeps no Collection of its own: it
\* shows the cached data of the getPosts query and hands each mutation to an
\* RTK Query endpoint.  Here posts is that cached data (the hook's default
\* [] while there is none), view equals posts (no callback captures it),
\* loading is isLoading, error is the hook's error, and calls holds the
\* getPosts requests (kind "fetch") and the mutations.

\* A tag of tagTypes ['Post']; id 0 stands for the tag without an id.
Tag(id) == [type |-> "Post", id |-> id]

\* providesTags of getPosts, the only query the hook subscribes to.
ProvidesTags == {Tag(0)}

\* invalidatesTags of the createPost, updatePost and deletePost endpoints.
InvalidatesTags(kind, id) ==
  IF kind = "create" THEN {Tag(0)} ELSE {Tag(id)}

\* RTK Query's matching: a tag without an id invalidates every provided tag
\* of its type, a tag with an id only the provided tag with that id.
TagMatches(invalidated, provided) ==
  /\ invalidated.type = provided.type
  /\ (invalidated.id = 0 \/ invalidated.id = provided.id)

\* The settled mutation invalidates the cached getPosts list.
InvalidatesList(kind, id) ==
  \E t \in InvalidatesTags(kind, id), p \in ProvidesTags : TagMatches(t, p)

\* The calls after a mutation of this kind settled in cs: an invalidated
\* list is requested again, unless a request for it is already in flight.
Invalidate(cs, kind, id) ==
  IF /\ InvalidatesList(kind, id)
     /\ \A j \in DOMAIN cs : ~(cs[j].kind = "fetch" /\ cs[j].status = "pending")
  THEN Append(cs, Call("fetch", 0, NoData, NoPost, <<>>, "pending", 1))
  ELSE cs

\* isLoading: a request is in flight and the cache has no data yet.
IsLoading(cs) ==
  /\ \E j \in DOMAIN cs : cs[j].kind = "fetch" /\ cs[j].status = "pending"
  /\ \A j \in DOMAIN cs : ~(cs[j].kind = "fetch" /\ cs[j].status = "ok")

\* The hook's error for a failed query: fetchBaseQuery's error data is never
\* an Error instance.
UnknownError == "Unknown error"

\* What GET /posts can answer a request with.
Listings ==
  FetchResults \cup
    {<<Post(3, "X", "p"), Post(5, "S", "s"), Post(7, "X", "p")>>}

RtkInit ==
  /\ variant = "rtk-query"
  /\ UiInit
  /\ posts = <<>>
  /\ view = <<>>
  /\ loading = FALSE
  /\ error = NoError
  /\ calls = <<>>
  /\ now = ClockStart
  /\ nextId = FirstServerId

\* useGetPostsQuery() subscribes on mount and requests the list.
Subscribe ==
  /\ Fetches = {}
  /\ calls' = Append(calls, Call("fetch", 0, NoData, NoPost, <<>>, "pending", 1))
  /\ loading' = IsLoading(calls')
  /\ UNCHANGED <<uiVars, variant, posts, view, error, now, nextId>>

\* The getPosts request resolves with S.
QueryFulfilled(i, S) ==
  /\ i \in Pending("fetch")
  /\ posts' = S
  /\ view' = S
  /\ error' = NoError
  /\ calls' = Settle(i, "ok", NoPost)
  /\ loading' = IsLoading(calls')
  /\ UNCHANGED <<uiVars, variant, now, nextId>>

\* The getPosts request fails: the cached data stays.
QueryRejected(i) ==
  /\ i \in Pending("fetch")
  /\ error' = UnknownError
  /\ calls' = Settle(i, "failed", NoPost)
  /\ loading' = IsLoading(calls')
  /\ UNCHANGED <<uiVars, variant, posts, view, now, nextId>>

\* createPost(data), updatePost(id, data), deletePost(id) up to the await of
\* the mutation trigger: the request is sent, nothing else is written.
Trigger(kind, id, data) ==
  /\ Mounted
  /\ MoreCalls
  /\ calls' = Append(calls, Call(kind, id, data, NoPost, <<>>, "pending", 1))
  /\ UNCHANGED <<uiVars, variant, posts, view, loading, error, now, nextId>>

\* The hook's createPost, updatePost and deletePost.
createPost(data) == Trigger("create", 0, data)

updatePost(id, data) == Trigger("update", id, data)

deletePost(id) == Trigger("delete", id, NoData)

\* The mutation resolves with result; its tags are invalidated.
MutationFulfilled(i, result) ==
  /\ i \in Mutations
  /\ calls[i].status = "pending"
  /\ calls' = Invalidate(Settle(i, "ok", result), calls[i].kind, calls[i].id)
  /\ nextId' = IF calls[i].kind = "create" THEN nextId + 1 ELSE nextId
  /\ loading' = IsLoading(calls')
  /\ UNCHANGED <<uiVars, variant, posts, view, error, now>>

\* The mutation fails with an HTTP error: its tags are invalidated as well,
\* and the hook rethrows.
MutationRejected(i) ==
  /\ i \in Mutations
  /\ calls[i].status = "pending"
  /\ calls' = Invalidate(Settle(i, "failed", NoPost), calls[i].kind, calls[i].id)
  /\ loading' = IsLoading(calls')
  /\ UNCHANGED <<uiVars, variant, posts, view, error, now, nextId>>

\* What the server answers mutation i with.
MutationResponses(i) ==
  CASE calls[i].kind = "create" -> {CreateResponse(nextId, calls[i].data)}
    [] calls[i].kind = "update" -> UpdateResponses(calls[i].id, calls[i].data)
    [] OTHER -> {NoPost}

RtkNext ==
  \/ Subscribe
  \/ \E i \in DOMAIN calls, S \in Listings : QueryFulfilled(i, S)
  \/ \E i \in DOMAIN calls : QueryRejected(i)
  \/ \E data \in CreateData : createPost(data)
  \/ \E id \in {5, 7}, data \in Patches : updatePost(id, data)
  \/ \E id \in {5, 7} : deletePost(id)
  \/ \E i \in DOMAIN calls :
       \E result \in MutationResponses(i) : MutationFulfilled(i, result)
  \/ \E i \in DOMAIN calls : MutationRejected(i)

RtkSpec == RtkInit /\ [][RtkNext]_vars

\* C24: all seven apps, rtk-query included, give create, update and delete
\* an optimistic local effect: the call itself, before the remote response,
\* changes the list shown as the hand-written stores do (the placeholder is
\* prepended, the patch is merged into the record, the record is removed).
C24_OptimisticEffect ==
  [][/\ \A id \in {0} \cup Ids(posts) :
          /\ Issues("create", id) =>
               posts' = CreateOptimistic("zustand", posts, <<>>,
                                         Optimistic(now, Issued.data))
          /\ Issues("update", id) =>
               posts' = UpdateOptimistic("zustand", posts, <<>>, id, Issued.data)
          /\ Issues("delete", id) =>
               posts' = DeleteOptimistic("zustand", posts, <<>>, id)]_vars

\* C26: in the rtk-query app a successful createPost, updatePost or
\* deletePost invalidates the cached list of getPosts: when the mutation has
\* resolved, a getPosts request is in flight (and, the server answering every
\* request, the list shown is replaced by a fresh one).
C26_ListRefetched ==
  [][\A i \in DOMAIN calls :
       \A kind \in {"create", "update", "delete"} :
         Settles(i, kind, "ok") =>
           \E j \in DOMAIN calls' :
             calls'[j].kind = "fetch" /\ calls'[j].status = "pending"]_vars

\* C31: whenever a create call returns record R successfully, R is an element
\* of the Collection at that moment, under every interleaving with other
\* operations, a fetch-all that resolves while the create is in flight
\* included.
C31_CreatedRecordPresent ==
  [][\A i \in DOMAIN calls :
       Settles(i, "create", "ok") =>
         \E k \in DOMAIN posts' : posts'[k] = calls'[i].result]_vars

----------------------------------------------------------------------------
\* PostList and its Pagination.  posts is the posts prop, searchTerm and
\* currentPage are the component's state.

MaxPosts == 18          \* the longest posts prop of a run
ItemsPerPage == 2       \* itemsPerPage, as App passes it and as it defaults
MaxVisiblePages == 5    \* Pagination's maxVisiblePages default

Min(a, b) == IF a <= b THEN a ELSE b
Max(a, b) == IF a >= b THEN a ELSE b

\* The posts props of a run: n posts, titled "a" and "b" in turn.
PropList(n) == [k \in 1..n |-> Post(k, IF k % 2 = 1 THEN "a" ELSE "b", "p")]
PropLists == {PropList(n) : n \in 0..MaxPosts}

\* What is typed into the search box: nothing, blanks, a term.
SearchTerms == {"", " ", "a", "A"}

\* searchTerm.toLowerCase().trim()
Term(s) == CASE s = " " -> "" [] s = "A" -> "a" [] OTHER -> s

\* title.toLowerCase().includes(term) || body.toLowerCase().includes(term),
\* for titles, bodies and terms of one letter.
Matches(post, term) == post.title = term \/ post.body = term

\* filteredPosts
FilteredPosts(ps, s) ==
  IF Term(s) = "" THEN ps ELSE SelectSeq(ps, LAMBDA post : Matches(post, Term(s)))

\* Array.prototype.slice(startIndex, endIndex), for 0 <= startIndex
Slice(s, startIndex, endIndex) ==
  SubSeq(s, startIndex + 1, Min(endIndex, Len(s)))

\* paginatedPosts
PaginatedPosts(ps, s, page) ==
  LET startIndex == (page - 1) * ItemsPerPage
      endIndex == startIndex + ItemsPerPage
  IN  Slice(FilteredPosts(ps, s), startIndex, endIndex)

\* Math.ceil(totalItems / itemsPerPage)
TotalPages(totalItems) == (totalItems + ItemsPerPage - 1) \div ItemsPerPage

\* The entries of getVisiblePages: a page number or an ellipsis marker.
PageEntry(n) == [kind |-> "page", page |-> n]
EllipsisEntry(which) == [kind |-> which, page |-> 0]

\* A getVisiblePages that puts the leading ellipsis after every leading 1.
EllipsisAfterFirst(page, totalPages, maxVisiblePages) ==
  LET halfVisible == maxVisiblePages \div 2
      endPage == IF page <= halfVisible
                 THEN Min(maxVisiblePages, totalPages)
                 ELSE Min(totalPages, page + halfVisible)
      startPage == IF page > totalPages - halfVisible
                   THEN Max(1, totalPages - maxVisiblePages + 1)
                   ELSE Max(1, page - halfVisible)
      first == IF startPage > 1
               THEN <<PageEntry(1), EllipsisEntry("ellipsis-start")>>
               ELSE <<>>
      middle == [i \in 1..(endPage - startPage + 1) |-> PageEntry(startPage + i - 1)]
      last == IF endPage < totalPages
              THEN (IF endPage < totalPages - 1
                    THEN <<EllipsisEntry("ellipsis-end")>> ELSE <<>>)
                   \o <<PageEntry(totalPages)>>
              ELSE <<>>
  IN  first \o middle \o last

\* getVisiblePages()
GetVisiblePages(page, totalPages, maxVisiblePages) ==
  LET halfVisible == maxVisiblePages \div 2
      endPage == IF page <= halfVisible
                 THEN Min(maxVisiblePages, totalPages)
                 ELSE Min(totalPages, page + halfVisible)
      startPage == IF page > totalPages - halfVisible
                   THEN Max(1, totalPages - maxVisiblePages + 1)
                   ELSE Max(1, page - halfVisible)
      first == IF startPage > 1
               THEN <<PageEntry(1)>>
                    \o (IF startPage > 2
                        THEN <<EllipsisEntry("ellipsis-start")>> ELSE <<>>)
               ELSE <<>>
      middle == [i \in 1..(endPage - startPage + 1) |-> PageEntry(startPage + i - 1)]
      last == IF endPage < totalPages
              THEN (IF endPage < totalPages - 1
                    THEN <<EllipsisEntry("ellipsis-end")>> ELSE <<>>)
                   \o <<PageEntry(totalPages)>>
              ELSE <<>>
  IN  first \o middle \o last

\* What PostList hands to Pagination, and whether it renders it.
TotalItems == Len(FilteredPosts(posts, searchTerm))
PaginationShown == TotalItems > ItemsPerPage /\ TotalPages(TotalItems) > 1
VisiblePages == GetVisiblePages(currentPage, TotalPages(TotalItems), MaxVisiblePages)

PostListInit ==
  /\ variant = "react-state-props"
  /\ posts \in PropLists
  /\ view = <<>>
  /\ loading = FALSE
  /\ error = NoError
  /\ calls = <<>>
  /\ now = ClockStart
  /\ nextId = FirstServerId
  /\ UiInit

\* Everything but the posts prop and PostList's state.
PostListFrame ==
  UNCHANGED <<variant, view, loading, error, calls, now, nextId, toast,
              timeoutRef, closeTimer, editingPost, isSubmitting, touched,
              rendered, submits>>

\* The parent renders PostList with another posts prop.
PostsPropChange(ps) ==
  /\ ps # posts
  /\ posts' = ps
  /\ UNCHANGED <<searchTerm, currentPage>>
  /\ PostListFrame

\* onSearchChange, and the effect on [searchTerm] that follows the render.
SearchChange(s) ==
  /\ s # searchTerm
  /\ searchTerm' = s
  /\ currentPage' = 1
  /\ UNCHANGED posts
  /\ PostListFrame

\* Pagination's handlePageChange(page), calling PostList's handlePageChange.
HandlePageChange(page) ==
  /\ PaginationShown
  /\ page >= 1 /\ page <= TotalPages(TotalItems) /\ page # currentPage
  /\ currentPage' = page
  /\ UNCHANGED <<posts, searchTerm>>
  /\ PostListFrame

\* A click on a page number button.
ClickPage(k) ==
  /\ k \in DOMAIN VisiblePages
  /\ VisiblePages[k].kind = "page"
  /\ HandlePageChange(VisiblePages[k].page)

\* A click on the previous button, disabled on page 1.
ClickPrevious == currentPage # 1 /\ HandlePageChange(currentPage - 1)

\* A click on the next button, disabled on the last page.
ClickNext ==
  currentPage # TotalPages(TotalItems) /\ HandlePageChange(currentPage + 1)

PostListNext ==
  \/ \E ps \in PropLists : PostsPropChange(ps)
  \/ \E s \in SearchTerms : SearchChange(s)
  \/ \E k \in 1..(MaxVisiblePages + 4) : ClickPage(k)
  \/ ClickPrevious
  \/ ClickNext

PostListSpec == PostListInit /\ [][PostListNext]_vars

\* C32: in PostList, after any sequence of search-term changes, page changes
\* and changes of the posts prop, whenever the filtered list is non-empty
\* the page shown is non-empty: the current page never exceeds the number of
\* pages of the filtered list.
C32_PageShownNonEmpty ==
  TotalItems > 0 =>
    /\ PaginatedPosts(posts, searchTerm, currentPage) # <<>>
    /\ currentPage <= TotalPages(TotalItems)

\* The page numbers among the entries of getVisiblePages, in order.
PageNumbers(entries) == SelectSeq(entries, LAMBDA e : e.kind = "page")

\* C37: for every totalPages >= 2 and every currentPage in 1..totalPages
\* (maxVisiblePages = 5), the page numbers returned by getVisiblePages are
\* strictly ascending without duplicates, lie in 1..totalPages, and include
\* 1, totalPages and currentPage; an ellipsis appears only between two page
\* numbers with at least one page skipped between them.
C37_VisiblePagesWellFormed ==
  LET totalPages == TotalPages(TotalItems)
      numbers == PageNumbers(VisiblePages)
  IN  (PaginationShown /\ totalPages >= 2 /\ currentPage \in 1..totalPages) =>
        /\ \A i, j \in DOMAIN numbers : i < j => numbers[i].page < numbers[j].page
        /\ \A i \in DOMAIN numbers : numbers[i].page \in 1..totalPages
        /\ \A n \in {1, totalPages, currentPage} :
             \E i \in DOMAIN numbers : numbers[i].page = n
        /\ \A k \in DOMAIN VisiblePages :
             VisiblePages[k].kind # "page" =>
               /\ k - 1 \in DOMAIN VisiblePages /\ k + 1 \in DOMAIN VisiblePages
               /\ VisiblePages[k - 1].kind = "page"
               /\ VisiblePages[k + 1].kind = "page"
               /\ VisiblePages[k + 1].page - VisiblePages[k - 1].page > 1

\* Page 5 of 9 is shown, with an ellipsis on either side of pages 3 to 7.
C37_Witness ==
  /\ PaginationShown
  /\ TotalPages(TotalItems) = 9
  /\ currentPage = 5
  /\ \E k \in DOMAIN VisiblePages : VisiblePages[k].kind = "ellipsis-start"
  /\ \E k \in DOMAIN VisiblePages : VisiblePages[k].kind = "ellipsis-end"

----------------------------------------------------------------------------
\* useToast and the Toast component, as App wires them: autoHide, both
\* durations at their default, Toast rendered while toast is non-null with
\* onClose = hideToast.  Time is now, counted in seconds.

ToastTicks == 8         \* seconds the clock advances in one run
Duration == 3           \* DEFAULT_DURATION and Toast's duration default

ToastMessages == {"created", "deleted"}

ToastInit ==
  /\ variant = "react-state-props"
  /\ posts = <<>>
  /\ view = <<>>
  /\ loading = FALSE
  /\ error = NoError
  /\ calls = <<>>
  /\ now = ClockStart
  /\ nextId = FirstServerId
  /\ UiInit

\* Everything but the clock and the toast's state.
ToastFrame ==
  UNCHANGED <<variant, posts, view, loading, error, calls, nextId, searchTerm,
              currentPage, editingPost, isSubmitting, touched, rendered,
              submits>>

\* showToast(message): hideToast(), setToast, a new timer of the hook.  The
\* two setToast calls are rendered as one update, so a Toast that is mounted
\* stays mounted and keeps the timer of its mount effect (its dependencies
\* duration and onClose did not change); otherwise Toast mounts and starts
\* its timer.
ShowToast(message) ==
  /\ toast' = [id |-> now, message |-> message]
  /\ timeoutRef' = now + Duration
  /\ closeTimer' = IF toast = NoToast THEN now + Duration ELSE closeTimer
  /\ UNCHANGED now
  /\ ToastFrame

\* hideToast(): the hook's timer is cleared, toast is null; Toast unmounts
\* and its effect's cleanup clears its timer.
HideToast ==
  /\ toast' = NoToast
  /\ timeoutRef' = 0
  /\ closeTimer' = 0
  /\ UNCHANGED now
  /\ ToastFrame

\* The close button or the Escape key of the Toast shown.
CloseToast == toast # NoToast /\ HideToast

\* The hook's setTimeout callback runs.
HookTimerFires == timeoutRef # 0 /\ now >= timeoutRef /\ HideToast

\* The setTimeout callback of Toast's effect runs: onClose().
CloseTimerFires == closeTimer # 0 /\ now >= closeTimer /\ HideToast

\* A second passes; a timer that is due runs first.
ToastTick ==
  /\ now < ClockStart + ToastTicks
  /\ timeoutRef # 0 => now < timeoutRef
  /\ closeTimer # 0 => now < closeTimer
  /\ now' = now + 1
  /\ UNCHANGED <<toast, timeoutRef, closeTimer>>
  /\ ToastFrame

ToastNext ==
  \/ \E message \in ToastMessages : ShowToast(message)
  \/ CloseToast
  \/ HookTimerFires
  \/ CloseTimerFires
  \/ ToastTick

ToastSpec == ToastInit /\ [][ToastNext]_vars

\* C33: in useToast with autoHide, a timer started for an earlier toast never
\* hides a later toast: whenever a timer, the hook's or the Toast
\* component's, hides the toast shown, `duration` has elapsed since the
\* showToast call that put that toast up.
C33_TimerHidesOwnToast ==
  [][((HookTimerFires \/ CloseTimerFires) /\ toast # NoToast) =>
       now >= toast.id + Duration]_vars

----------------------------------------------------------------------------
\* usePostEditor and PostForm, as App and PostWorkspace wire them: the form's
\* post is editingPost and its onSubmit is submitPost.  onCreate, onUpdate,
\* onSuccess and onError are the hook's parameters; a call of one is kept in
\* the record of the submitPost call that made it.  A state update made in
\* an event handler is rendered before the next event; one made in the
\* continuation of an await is rendered by a later task (EditorRender).

MaxSubmits == 3         \* submitPost calls made in one run

\* The posts listed, each with an Edit button.
Editable == {Post(5, "X", "p"), Post(7, "X", "p")}

SUCCESS_UPDATED == "Post updated successfully!"
SUCCESS_CREATED == "Post created successfully!"
FAILED_UPDATE == "Failed to update post"
FAILED_CREATE == "Failed to create post"

\* A submitPost call: the operation it invoked and with which id, the id of
\* editingPost when it was called (0 for null), its outcome, the callback it
\* notified with which message, and whether it rethrew.
Submit(op, id, editing) ==
  [op |-> op, id |-> id, editing |-> editing, status |-> "pending",
   callback |-> Absent, message |-> Absent, thrown |-> FALSE]

PendingSubmits == {i \in DOMAIN submits : submits[i].status = "pending"}

EditorInit ==
  /\ variant = "react-state-props"
  /\ posts = <<>>
  /\ view = <<>>
  /\ loading = FALSE
  /\ error = NoError
  /\ calls = <<>>
  /\ now = ClockStart
  /\ nextId = FirstServerId
  /\ UiInit

\* Everything but the state of usePostEditor and PostForm.
EditorFrame ==
  UNCHANGED <<storeVars, searchTerm, currentPage, toast, timeoutRef, closeTimer>>

\* What a render hands to the callbacks it creates.
Captured(post, submitting) == [editingPost |-> post, isSubmitting |-> submitting]

\* startEditing(post), from the Edit button of a listed post; the form's
\* effect on [post] resets its fields.
StartEditing(post) ==
  /\ post # editingPost
  /\ editingPost' = post
  /\ touched' = FALSE
  /\ rendered' = Captured(post, isSubmitting)
  /\ UNCHANGED <<isSubmitting, submits>>
  /\ EditorFrame

\* cancelEditing(), from the form's cancel button.
CancelEditing ==
  /\ rendered.editingPost # NoPost
  /\ editingPost' = NoPost
  /\ touched' = FALSE
  /\ rendered' = Captured(NoPost, isSubmitting)
  /\ UNCHANGED <<isSubmitting, submits>>
  /\ EditorFrame

\* A handleSubmit whose isFormValid leaves isSubmitting out.
HandleSubmitAnyway(filled) ==
  /\ Len(submits) < MaxSubmits
  /\ IF ~filled
     THEN /\ touched' = TRUE
          /\ UNCHANGED <<isSubmitting, rendered, submits>>
     ELSE /\ isSubmitting' = TRUE
          /\ rendered' = Captured(editingPost, TRUE)
          /\ submits' =
               Append(submits,
                      IF rendered.editingPost # NoPost
                      THEN Submit("update", rendered.editingPost.id, editingPost.id)
                      ELSE Submit("create", 0, editingPost.id))
          /\ UNCHANGED touched
  /\ UNCHANGED editingPost
  /\ EditorFrame

\* handleSubmit(e), the form's fields filled in or not, up to the await in
\* submitPost: isFormValid is the one of the last render.
HandleSubmit(filled) ==
  /\ Len(submits) < MaxSubmits
  /\ IF ~(filled /\ ~rendered.isSubmitting)
     THEN /\ touched' = TRUE
          /\ UNCHANGED <<isSubmitting, rendered, submits>>
     ELSE /\ isSubmitting' = TRUE
          /\ rendered' = Captured(editingPost, TRUE)
          /\ submits' =
               Append(submits,
                      IF rendered.editingPost # NoPost
                      THEN Submit("update", rendered.editingPost.id, editingPost.id)
                      ELSE Submit("create", 0, editingPost.id))
          /\ UNCHANGED touched
  /\ UNCHANGED editingPost
  /\ EditorFrame

\* A submitPost that clears editingPost when its call fails, too.
SubmitRejectsAndClears(i) ==
  /\ i \in PendingSubmits
  /\ submits' = [submits EXCEPT ![i].status = "failed",
                                ![i].callback = "onError",
                                ![i].message = IF submits[i].op = "update"
                                               THEN FAILED_UPDATE
                                               ELSE FAILED_CREATE,
                                ![i].thrown = TRUE]
  /\ editingPost' = NoPost
  /\ isSubmitting' = FALSE
  /\ UNCHANGED <<touched, rendered>>
  /\ EditorFrame

\* A submitPost that words its failure by the editingPost of the moment.
SubmitRejectsByState(i) ==
  /\ i \in PendingSubmits
  /\ submits' = [submits EXCEPT ![i].status = "failed",
                                ![i].callback = "onError",
                                ![i].message = IF editingPost # NoPost
                                               THEN FAILED_UPDATE
                                               ELSE FAILED_CREATE,
                                ![i].thrown = TRUE]
  /\ isSubmitting' = FALSE
  /\ UNCHANGED <<editingPost, touched, rendered>>
  /\ EditorFrame

\* onUpdate / onCreate resolves: onSuccess, setEditingPost(null); then the
\* form resets its fields when it was not in edit mode, and its finally.
SubmitResolves(i) ==
  /\ i \in PendingSubmits
  /\ submits' = [submits EXCEPT ![i].status = "ok",
                                ![i].callback = "onSuccess",
                                ![i].message = IF submits[i].op = "update"
                                               THEN SUCCESS_UPDATED
                                               ELSE SUCCESS_CREATED]
  /\ editingPost' = NoPost
  /\ touched' = IF submits[i].op = "create" THEN FALSE ELSE touched
  /\ isSubmitting' = FALSE
  /\ UNCHANGED rendered
  /\ EditorFrame

\* onUpdate / onCreate rejects: onError, the rethrow; then the form's
\* finally.
SubmitRejects(i) ==
  /\ i \in PendingSubmits
  /\ submits' = [submits EXCEPT ![i].status = "failed",
                                ![i].callback = "onError",
                                ![i].message = IF submits[i].op = "update"
                                               THEN FAILED_UPDATE
                                               ELSE FAILED_CREATE,
                                ![i].thrown = TRUE]
  /\ isSubmitting' = FALSE
  /\ UNCHANGED <<editingPost, touched, rendered>>
  /\ EditorFrame

\* React renders the updates of a continuation; the form's effect on [post]
\* resets its fields when its post changed.
EditorRender ==
  /\ rendered # Captured(editingPost, isSubmitting)
  /\ rendered' = Captured(editingPost, isSubmitting)
  /\ touched' = IF rendered.editingPost # editingPost THEN FALSE ELSE touched
  /\ UNCHANGED <<editingPost, isSubmitting, submits>>
  /\ EditorFrame

EditorNext ==
  \/ \E post \in Editable : StartEditing(post)
  \/ CancelEditing
  \/ \E filled \in BOOLEAN : HandleSubmit(filled)
  \/ \E i \in DOMAIN submits : SubmitResolves(i)
  \/ \E i \in DOMAIN submits : SubmitRejects(i)
  \/ EditorRender

EditorSpec == EditorInit /\ [][EditorNext]_vars

\* isEditing, as the hook returns it with the editingPost of the same render.
IsEditing == rendered.editingPost # NoPost

\* C34: PostForm never has two submissions in flight.  At most one onSubmit
\* call is pending; while one is pending, no step makes another; and
\* isSubmitting is false whenever no call is pending, so it returns to false
\* when the pending call settles, resolved or rejected.
C34_OneSubmissionInFlight ==
  /\ [](/\ Cardinality(PendingSubmits) <= 1
        /\ PendingSubmits = {} => ~isSubmitting)
  /\ [][PendingSubmits # {} => Len(submits') = Len(submits)]_vars

\* A submission failed, a later one is in flight, and a submit event that
\* came while it was pending was refused (it only marked the fields).
C34_Witness ==
  /\ \E i, j \in DOMAIN submits :
       i < j /\ submits[i].status = "failed" /\ submits[j].status = "pending"
  /\ isSubmitting
  /\ touched

\* C35: in usePostEditor, a submitPost whose onUpdate / onCreate call fails
\* leaves editingPost unmodified and rethrows the failure, and a submitPost
\* that succeeds sets editingPost to null; isEditing is true exactly when the
\* editingPost returned with it is non-null.
C35_EditingPostAfterSubmit ==
  /\ [](IsEditing <=> rendered.editingPost.id # 0)
  /\ [][\A i \in DOMAIN submits :
          /\ (submits[i].status = "pending" /\ submits'[i].status = "failed") =>
               editingPost' = editingPost /\ submits'[i].thrown
          /\ (submits[i].status = "pending" /\ submits'[i].status = "ok") =>
               editingPost' = NoPost /\ ~submits'[i].thrown]_vars

\* An update of post 5 failed and post 5 is still being edited, after an
\* earlier submission succeeded.
C35_Witness ==
  /\ \E i, j \in DOMAIN submits :
       /\ i < j
       /\ submits[i].status = "ok"
       /\ submits[j].status = "failed" /\ submits[j].op = "update"
       /\ submits[j].id = 5 /\ submits[j].thrown
  /\ editingPost = Post(5, "X", "p")
  /\ PendingSubmits = {}

\* C36: each submitPost call invokes exactly one of onUpdate (when
\* editingPost is non-null at call time, with that post's id) or onCreate
\* (otherwise), and then exactly one of onSuccess or onError, the update or
\* create wording of its message matching the operation that was invoked.
C36_OneOperationOneNotice ==
  \A i \in DOMAIN submits :
    LET c == submits[i]
    IN  /\ c.editing # 0 => (c.op = "update" /\ c.id = c.editing)
        /\ c.editing = 0 => c.op = "create"
        /\ c.status = "pending" => c.callback = Absent
        /\ c.status = "ok" =>
             /\ c.callback = "onSuccess"
             /\ c.message = IF c.op = "update" THEN SUCCESS_UPDATED
                            ELSE SUCCESS_CREATED
        /\ c.status = "failed" =>
             /\ c.callback = "onError"
             /\ c.message = IF c.op = "update" THEN FAILED_UPDATE
                            ELSE FAILED_CREATE

\* An update of post 7 failed after its editing was cancelled, and a create
\* succeeded.
C36_Witness ==
  /\ \E i \in DOMAIN submits :
       /\ submits[i].op = "update" /\ submits[i].id = 7
       /\ submits[i].status = "failed" /\ submits[i].message = FAILED_UPDATE
  /\ \E i \in DOMAIN submits :
       /\ submits[i].op = "create"
       /\ submits[i].status = "ok" /\ submits[i].message = SUCCESS_CREATED
  /\ editingPost = NoPost

====
